---- MODULE Spec2Model ----
(***************************************************************************)
(* Conversation / message lifecycle of the Q-Bot backend.                  *)
(*                                                                         *)
(* The entity store (MongoDB through beanie) holds Conversation and        *)
(* Message documents.  ConversationManager.process_user_message runs as a  *)
(* coroutine: every await on the store or on the language model is one     *)
(* atomic step, and steps of different requests interleave freely.  Every  *)
(* store operation either succeeds or raises.  Document.save() writes the  *)
(* whole in-memory document back under its id.                             *)
(***************************************************************************)
EXTENDS Integers, Sequences, FiniteSets, TLC

\* ------------------------------------------------------------------ bounds
MaxCalls  == 2      \* process_user_message invocations
MaxWindow == 2      \* context_window of the conversation that exists initially: 0..MaxWindow
MaxFaults == 1      \* store operations that raise in one behaviour
NumUsers  == 2
MaxRequests == 2    \* update / archive / restore requests
MaxHistory == 3     \* messages of a seeded history
MaxConns  == 2      \* WebSocket connections
MaxTime   == 4    \* the last reading of the clock
MaxChecks == 5    \* calls of RateLimiter.is_allowed
NumIdentifiers == 2
max_requests   == 2    \* RateLimiter(max_requests, window_seconds)
window_seconds == 3
MaxRegs   == 3      \* registration requests
NumNames  == 2      \* distinct emails, and distinct usernames, a client may send

\* ------------------------------------------------------- program constants
DefaultContextWindow == 10
DefaultMaxTokens     == 512

Calls == 1..MaxCalls
Users == 1..NumUsers
Reqs  == 1..MaxRequests

None   == 0          \* Python None: no conversation id, no message bound
NoDoc  == [id |-> None]
ConvIdInputs == 1..2 \* ids a client may send: 1 exists initially, 2 does not

\* The callers: user 1 owns conversation 1; the other users act as strangers to it.
Callers(conversation_id) == IF conversation_id = 1 THEN Users ELSE {1}

VARIABLES
    convs,        \* store: conversation id -> Conversation document
    messages,     \* store: message id -> Message document
    faults,       \* store operations that have raised so far
    pc,           \* per invocation: the await it is suspended at
    args,         \* per invocation: [conversation_id, user_id]
    lookup,       \* per invocation: what Conversation.get answered
    conversation, \* per invocation: the in-memory Conversation
    message,      \* per invocation: the Message add_message has built
    user_msg,     \* per invocation: the local user_msg (NoDoc while unbound)
    ai_msg,       \* per invocation: the local ai_msg (NoDoc while unbound)
    ctx,          \* per invocation: the conversation_history given to the model
    gen,          \* per invocation: the max_tokens and temperature generation ran with
    err,          \* per invocation: the step whose exception reached the except branch
    exc,          \* per invocation: the step whose exception reached the caller
    rpc,          \* per REST request: idle, loaded, or its answer
    rargs,        \* per REST request: [op, conversation_id, user_id, patch]
    rconv,        \* per REST request: the in-memory Conversation
    loaded,       \* history, per REST request: the Conversation as the request read it
    before,       \* history, per invocation: the stored message_count it started from
    overlapped,   \* history: conversations two operations have held at the same time
    unsaved,      \* history: conversations with a message insert whose save raised
    active_connections, \* ConnectionManager: the connection ids that have a socket
    user_connections,   \* ConnectionManager: user id -> connection id (None: no entry)
    handler,      \* per WebSocket connection: [pc, endpoint, user] of its endpoint handler
    registered,   \* history: connections whose handler has run the registration
    broadcast,    \* ConnectionManager.broadcast: [pc, disconnected]
    personal,     \* ConnectionManager.send_personal_message: [pc, connection_id, user_id]
    app,          \* the application: starting, serving, or aborted
    model_manager, \* ModelManager: what initialize_models loaded, and whether it raised
    users,        \* store: user id -> User document (email and username)
    unique_indexes, \* whether the users collection enforces its unique indexes
    reg,          \* per registration request: [pc, email, username, answer, email_registered]
    writes,       \* history, per invocation: the store writes it has issued, by kind
    chat,         \* per invocation: the WebSocket chat_message that leads to it, if any
    requests,     \* RateLimiter.requests: identifier -> times of its recorded requests
    current_time, \* what time.time() returns
    answers       \* history: [identifier, time, allowed] of every is_allowed call

vars == <<convs, messages, faults, pc, args, lookup, conversation,
          message, user_msg, ai_msg, ctx, gen, err, exc, rpc, rargs, rconv,
          loaded, before, overlapped, unsaved,
          active_connections, user_connections, handler, registered, broadcast, personal,
          app, model_manager, users, unique_indexes, reg, writes, chat,
          requests, current_time, answers>>

callVars == <<pc, args, lookup, conversation, message, user_msg, ai_msg, ctx, gen, err, exc,
              before, writes>>
restVars == <<rpc, rargs, rconv, loaded>>
wsVars   == <<active_connections, user_connections, handler, registered, broadcast, personal>>
\* What conversation traffic leaves alone.
appVars   == <<app, model_manager>>
userVars  == <<users, unique_indexes, reg>>
rateVars  == <<requests, current_time, answers>>
otherVars == <<wsVars, appVars, userVars, chat, rateVars>>

\* Variant of the constructor in which a USER message starts out PENDING.
Message_UserPending(id, conversation_id, content, message_type, status, now) ==
    [id |-> id, conversation_id |-> conversation_id, content |-> content,
     message_type |-> message_type,
     status |-> IF message_type = "user" THEN "pending" ELSE status, timestamp |-> now,
     model_used |-> FALSE, metadata |-> "empty"]

\* Variant of the constructor that files every message under conversation 1.
Message_Misfiled(id, conversation_id, content, message_type, status, now) ==
    [id |-> id, conversation_id |-> 1, content |-> content,
     message_type |-> message_type, status |-> status, timestamp |-> now,
     model_used |-> FALSE, metadata |-> "empty"]

\* ------------------------------------------------------------- documents
\* Message(conversation_id, content, message_type, **kwargs): status defaults to
\* COMPLETED, timestamp to utcnow(), the AI fields to None, metadata to {}.
Message(id, conversation_id, content, message_type, status, now) ==
    [id |-> id, conversation_id |-> conversation_id, content |-> content,
     message_type |-> message_type, status |-> status, timestamp |-> now,
     model_used |-> FALSE, metadata |-> "empty"]

\* Conversation(user_id, title, model_config): status ACTIVE, both timestamps
\* utcnow(), context_window 10, both counters 0.
Conversation(id, user_id, title, model_config, context_window, now) ==
    [id |-> id, user_id |-> user_id, title |-> title, status |-> "active",
     created_at |-> now, updated_at |-> now, model_config |-> model_config,
     context_window |-> context_window, message_count |-> 0,
     total_tokens_used |-> 0]

\* A model_config mapping over its two known keys; Absent marks a key it does not hold.
\* In a request, `given` is FALSE for model_config = None.
Absent   == -1
NoneStr  == "None"
NoConfig == [given |-> FALSE, max_tokens |-> Absent, temperature |-> Absent]
NoParams == [max_tokens |-> Absent, temperature |-> Absent]

\* Variant: a new conversation starts with the empty model_config the REST create uses.
DefaultModelConfig_Empty == [max_tokens |-> Absent, temperature |-> Absent]

\* lines 127-130: {"max_tokens": 512, "temperature": 0.7}, the temperature in tenths.
DefaultModelConfig == [max_tokens |-> DefaultMaxTokens, temperature |-> 7]

\* ObjectIds are unique: the model names a document by the invocation that makes it.
\* Conversation 1 exists initially and no conversation ever has id 2.
NewConversationId(p) == 2 + p
UserMessageId(p)     == 2 * p - 1
AiMessageId(p)       == 2 * p

\* What a user message of invocation p says, and what the model answers it.
UserText(p)     == p
ResponseText(p) == MaxCalls + p

\* --------------------------------------------------------------- the store
\* Document.insert / Document.save: the document is stored under its id (save is an
\* upsert: it stores the whole document whether or not the collection still holds it).
Put(coll, doc) == [i \in DOMAIN coll \cup {doc.id} |-> IF i = doc.id THEN doc ELSE coll[i]]

MessagesOf(conversation_id) ==
    {m \in DOMAIN messages : messages[m].conversation_id = conversation_id}

\* .sort(-Message.timestamp)
RECURSIVE SortByTimestampDesc(_)
SortByTimestampDesc(S) ==
    IF S = {} THEN <<>>
    ELSE LET m == CHOOSE x \in S : \A y \in S : messages[y].timestamp <= messages[x].timestamp
         IN  <<m>> \o SortByTimestampDesc(S \ {m})

\* Variants of the window: one that keeps the far end of the sorted list, and one of
\* the reversal that leaves the list as the store returned it.
Limit_Tail(s, n) == IF n = 0 \/ n >= Len(s) THEN s ELSE SubSeq(s, Len(s) - n + 1, Len(s))
Reverse_Forgotten(s) == s

\* .limit(n): a cursor limit of 0 is MongoDB's "no limit".
Limit(s, n) == IF n = 0 \/ n >= Len(s) THEN s ELSE SubSeq(s, 1, n)

Reverse(s) == [i \in 1..Len(s) |-> s[Len(s) + 1 - i]]

\* Conversation.get_messages(limit): ids of the newest `limit` messages, newest first.
get_messages(conv, limit) == Limit(SortByTimestampDesc(MessagesOf(conv.id)), limit)

\* _get_conversation_context, lines 147-156: the messages that make the context.
ContextMessages(conv) ==
    SelectSeq(Reverse(get_messages(conv, conv.context_window)),
              LAMBDA m : messages[m].status = "completed")

Role(m) == IF messages[m].message_type = "user" THEN "user" ELSE "assistant"

\* _get_conversation_context: the {role, content} entries handed to the model.
get_conversation_context(conv) ==
    LET ms == ContextMessages(conv)
    IN  [i \in 1..Len(ms) |-> [role |-> Role(ms[i]), content |-> messages[ms[i]].content]]

Max(S) == CHOOSE x \in S : \A y \in S : y <= x

\* datetime.utcnow(), kept up to order: a reading is later than every timestamp that
\* exists, in the store or in a request's memory.  Message timestamps and conversation
\* timestamps are never compared with each other, so each kind has its own scale.
MessageNow ==
    1 + Max({0} \cup {messages[m].timestamp : m \in DOMAIN messages}
                \cup {message[p].timestamp : p \in {q \in Calls : message[q] # NoDoc}}
                \cup {ai_msg[p].timestamp : p \in {q \in Calls : ai_msg[q] # NoDoc}})

ConversationNow ==
    1 + Max({0} \cup {convs[c].updated_at : c \in DOMAIN convs}
                \cup {conversation[p].updated_at : p \in {q \in Calls : conversation[q] # NoDoc}}
                \cup {rconv[r].updated_at : r \in {q \in Reqs : rconv[q] # NoDoc}})

\* The operations that hold an in-memory copy of conversation c and may still save it.
CallsHolding(c) ==
    {p \in Calls : conversation[p].id = c /\ pc[p] \notin {"idle", "returned", "raised"}}
ReqsHolding(c) == {r \in Reqs : rconv[r].id = c /\ rpc[r] = "loaded"}

\* History: an operation loads c while another one holds it.
Load(c) ==
    overlapped' = IF CallsHolding(c) # {} \/ ReqsHolding(c) # {}
                  THEN overlapped \cup {c} ELSE overlapped

\* ConversationUpdate: the fields a PUT may carry, each optional.
NoPatch == [title |-> NoneStr, status |-> NoneStr, model_config |-> NoConfig]
Patches == {NoPatch,
            [NoPatch EXCEPT !.title = "Renamed"],
            [NoPatch EXCEPT !.status = "paused"],
            [NoPatch EXCEPT !.model_config = [given |-> TRUE, max_tokens |-> Absent,
                                              temperature |-> 9]],
            [NoPatch EXCEPT !.model_config = [given |-> TRUE, max_tokens |-> 3,
                                              temperature |-> Absent]]}
Conns     == 1..MaxConns
Endpoints == {"chat", "notifications"}
NoHandler == [pc |-> "idle", endpoint |-> NoneStr, user |-> None]
Regs      == 1..MaxRegs
Emails    == 1..NumNames
Usernames == 1..NumNames
NoRegistration == [pc |-> "idle", email |-> None, username |-> None, answer |-> NoneStr,
                   email_registered |-> FALSE]
\* conftest.py lines 62-68: the user every test starts with.
TestUser  == [id |-> 1, email |-> 1, username |-> 1]
\* No chat_message: the invocation is called by the REST route.
NoChatMessage == [pc |-> "none", content |-> <<>>, is_str |-> TRUE, conversation_id |-> "absent",
                  sent |-> <<>>, send_raised |-> FALSE]
NoWrites  == [conversation_inserts |-> 0, conversation_saves |-> 0,
              message_inserts |-> 0, message_updates |-> 0]
NoRequest == [op |-> NoneStr, conversation_id |-> None, user_id |-> None, patch |-> NoPatch]

\* ------------------------------------------------------------------- Init
\* ModelManager.__init__, models.py lines 25-30: nothing is loaded.
Unloaded == [conversation_pipeline |-> FALSE, embedding_model |-> FALSE, raised |-> FALSE]

\* initialize_models, lines 32-50: the conversation model is loaded first, then the
\* embedding model; the first load that raises ends the initialization.
initialize_models(failure) ==
    [conversation_pipeline |-> failure # "conversation",
     embedding_model       |-> failure = "none",
     raised                |-> failure # "none"]

\* The application serves with both models loaded and the unique indexes of the users
\* collection enforced.
Ready ==
    /\ app = "serving"
    /\ model_manager = initialize_models("none")
    /\ unique_indexes = TRUE

\* No invocation and no request has started, no socket is connected.
NoTraffic ==
    /\ faults = 0
    /\ pc = [p \in Calls |-> "idle"]
    /\ args = [p \in Calls |-> [conversation_id |-> None, user_id |-> None]]
    /\ lookup = [p \in Calls |-> "none"]
    /\ conversation = [p \in Calls |-> NoDoc]
    /\ message = [p \in Calls |-> NoDoc]
    /\ user_msg = [p \in Calls |-> NoDoc]
    /\ ai_msg = [p \in Calls |-> NoDoc]
    /\ ctx = [p \in Calls |-> <<>>]
    /\ gen = [p \in Calls |-> NoParams]
    /\ err = [p \in Calls |-> "none"]
    /\ exc = [p \in Calls |-> "none"]
    /\ rpc = [r \in Reqs |-> "idle"]
    /\ rargs = [r \in Reqs |-> NoRequest]
    /\ rconv = [r \in Reqs |-> NoDoc]
    /\ loaded = [r \in Reqs |-> NoDoc]
    /\ before = [p \in Calls |-> 0]
    /\ writes = [p \in Calls |-> NoWrites]
    /\ overlapped = {}
    /\ unsaved = {}
    /\ active_connections = {}
    /\ user_connections = [u \in Users |-> None]
    /\ handler = [c \in Conns |-> NoHandler]
    /\ registered = {}
    /\ broadcast = [pc |-> "idle", disconnected |-> {}]
    /\ personal = [pc |-> "idle", connection_id |-> None, user_id |-> None]
    /\ users = [i \in {TestUser.id} |-> TestUser]
    /\ reg = [g \in Regs |-> NoRegistration]
    /\ chat = [p \in Calls |-> NoChatMessage]
    /\ requests = [i \in {} |-> <<>>]
    /\ current_time = 0
    /\ answers = <<>>

\* The state every specification starts from, but for the content of the store.
Idle ==
    /\ Ready
    /\ NoTraffic

\* User 1 owns conversation 1, which holds no message yet.
Init ==
    /\ \E w \in 0..MaxWindow :
         convs = [i \in {1} |-> Conversation(1, 1, "Test Conversation", DefaultModelConfig, w, 0)]
    /\ messages = [i \in {} |-> NoDoc]
    /\ Idle

\* The values of MessageType and MessageStatus.
MessageTypes    == {"user", "assistant", "system"}
MessageStatuses == {"pending", "processing", "completed", "failed"}

\* What the i-th message of a stored history says.
HistoryText(i) == 10 + i

\* The timestamps of n stored messages: pairwise distinct, in any order of insertion.
Timestamps(n) == {f \in [1..n -> 1..n] : \A i, j \in 1..n : i # j => f[i] # f[j]}

\* Conversation 1 with a stored history: up to MaxHistory messages of any type and status.
InitHistory ==
    /\ \E w \in 0..MaxWindow, n \in 0..MaxHistory :
       \E types \in [1..n -> MessageTypes], statuses \in [1..n -> MessageStatuses],
          times \in Timestamps(n) :
         /\ convs = [i \in {1} |->
                       [Conversation(1, 1, "Test Conversation", DefaultModelConfig, w, 0)
                          EXCEPT !.message_count = n]]
         /\ messages = [i \in 1..n |->
                          Message(i, 1, HistoryText(i), types[i], statuses[i], times[i])]
    /\ Idle

\* Variant of the except branch that swallows the exception: the invocation returns.
Raise_Swallowed(p, step) ==
    /\ err' = [err EXCEPT ![p] = step]
    /\ pc' = [pc EXCEPT ![p] = "returned"]
    /\ exc' = exc

\* The values a model_config entry is given: none, zero, and a positive one.
ConfigValues == {Absent, 0, 3}

\* Conversation 1 with any model_config over these values.
InitConfig ==
    /\ \E mt \in ConfigValues, t \in ConfigValues :
         convs = [i \in {1} |->
                    Conversation(1, 1, "Test Conversation",
                                 [max_tokens |-> mt, temperature |-> t],
                                 DefaultContextWindow, 0)]
    /\ messages = [i \in {} |-> NoDoc]
    /\ Idle

\* ------------------------------------------------- process_user_message
\* An exception raised at `step`: the except branch (lines 96-110) writes FAILED
\* when ai_msg is bound, and re-raises otherwise.
Raise(p, step) ==
    /\ err' = [err EXCEPT ![p] = step]
    /\ IF ai_msg[p] # NoDoc
       THEN pc' = [pc EXCEPT ![p] = "fail_write"] /\ exc' = exc
       ELSE pc' = [pc EXCEPT ![p] = "raised"] /\ exc' = [exc EXCEPT ![p] = step]

\* A store operation raises.
StoreRaises == faults < MaxFaults /\ faults' = faults + 1

\* Invocations are numbered in the order in which they are called.
Started(p) == \A q \in Calls : q < p => pc[q] # "idle"

\* Invocation p is called by the REST route, or by handle_chat_message (websocket.py
\* lines 198-202) once it has sent ai_typing for a frame whose conversation_id is of
\* this kind: "absent" gives conv_id None, "object_id" a converted id.
Calling(p, kind) ==
    \/ chat[p].pc = "none"
    \/ chat[p].pc = "process" /\ chat[p].conversation_id = kind

\* Variant of the ownership test that accepts every stored conversation.
Owned_ByAnyone(id, user_id) == id \in DOMAIN convs

\* _get_or_create_conversation, lines 119-121: the conversation exists and is the caller's.
Owned(id, user_id) == id \in DOMAIN convs /\ convs[id].user_id = user_id

\* Variant in which every write is issued twice.
Wrote_Twice(p, kind) == writes' = [writes EXCEPT ![p][kind] = @ + 2]

\* Invocation p awaits one insert() or save(); the write is counted whether it returns
\* or raises.
Wrote(p, kind) == writes' = [writes EXCEPT ![p][kind] = @ + 1]

\* _get_or_create_conversation, lines 124-132: build and insert a new Conversation.
InsertNewConversation(p, user_id) ==
    /\ Wrote(p, "conversation_inserts")
    /\ \/ /\ LET c == Conversation(NewConversationId(p), user_id, "New Conversation",
                                   DefaultModelConfig, DefaultContextWindow, ConversationNow)
             IN  /\ convs' = Put(convs, c)
                 /\ conversation' = [conversation EXCEPT ![p] = c]
                 /\ before' = [before EXCEPT ![p] = c.message_count]
          /\ pc' = [pc EXCEPT ![p] = "insert_user"]
          /\ UNCHANGED <<faults, err, exc>>
       \/ /\ StoreRaises
          /\ Raise(p, "create")
          /\ UNCHANGED <<convs, conversation, before>>

\* process_user_message(None, text, user_id): line 118 is false, a conversation is created.
StartNew(p) ==
    /\ app = "serving"
    /\ pc[p] = "idle"
    /\ Started(p)
    /\ Calling(p, "absent")
    /\ \E u \in Callers(None) :
         /\ args' = [args EXCEPT ![p] = [conversation_id |-> None, user_id |-> u]]
         /\ InsertNewConversation(p, u)
    /\ UNCHANGED <<restVars, otherVars>>
    /\ UNCHANGED <<messages, lookup, message, user_msg, ai_msg, ctx, gen, overlapped, unsaved>>

\* process_user_message(id, text, user_id): lines 118-121, Conversation.get and the
\* ownership test.
GetConversation(p) ==
    /\ app = "serving"
    /\ pc[p] = "idle"
    /\ Started(p)
    /\ Calling(p, "object_id")
    /\ \E id \in ConvIdInputs :
       \E u \in Callers(id) :
         /\ args' = [args EXCEPT ![p] = [conversation_id |-> id, user_id |-> u]]
         /\ \/ /\ IF Owned(id, u)
                  THEN /\ conversation' = [conversation EXCEPT ![p] = convs[id]]
                       /\ before' = [before EXCEPT ![p] = convs[id].message_count]
                       /\ lookup' = [lookup EXCEPT ![p] = "owned"]
                       /\ pc' = [pc EXCEPT ![p] = "insert_user"]
                       /\ Load(id)
                  ELSE /\ UNCHANGED <<conversation, before>>
                       /\ lookup' = [lookup EXCEPT ![p] =
                                       IF id \in DOMAIN convs THEN "foreign" ELSE "absent"]
                       /\ pc' = [pc EXCEPT ![p] = "create"]
                       /\ overlapped' = overlapped
               /\ UNCHANGED <<faults, err, exc>>
            \/ /\ StoreRaises
               /\ Raise(p, "get")
               /\ UNCHANGED <<conversation, before, lookup, overlapped>>
    /\ UNCHANGED <<restVars, otherVars>>
    /\ UNCHANGED writes
    /\ UNCHANGED <<convs, messages, message, user_msg, ai_msg, ctx, gen, unsaved>>

\* lines 123-140: the lookup missed, a new conversation is created for the caller.
CreateConversation(p) ==
    /\ pc[p] = "create"
    /\ InsertNewConversation(p, args[p].user_id)
    /\ UNCHANGED <<restVars, otherVars>>
    /\ UNCHANGED <<messages, args, lookup, message, user_msg, ai_msg, ctx, gen, overlapped, unsaved>>

\* Conversation.add_message, lines 102-108: build the Message and insert it.
AddMessageInsert(p, id, content, message_type, status, next, step) ==
    /\ Wrote(p, "message_inserts")
    /\ \/ /\ LET m == Message(id, conversation[p].id, content, message_type, status, MessageNow)
             IN  /\ messages' = Put(messages, m)
                 /\ message' = [message EXCEPT ![p] = m]
          /\ pc' = [pc EXCEPT ![p] = next]
          /\ UNCHANGED <<faults, err, exc>>
       \/ /\ StoreRaises
          /\ Raise(p, step)
          /\ UNCHANGED <<messages, message>>

\* Variants of the counting step, used to show which properties depend on it:
\* one that stamps without counting, one that counts from the stored document
\* (an atomic increment), one that counts downward.
Counted_NoIncrement(conv, now) == [conv EXCEPT !.updated_at = now]
Counted_FromStore(conv, now) ==
    [conv EXCEPT !.message_count = convs[conv.id].message_count + 1, !.updated_at = now]
Counted_Decrements(conv, now) ==
    [conv EXCEPT !.message_count = @ - 1, !.updated_at = now]
\* A further variant, which counts every message twice.
Counted_Twice(conv, now) ==
    [conv EXCEPT !.message_count = @ + 2, !.updated_at = now]

\* Conversation.add_message, lines 110-112: count the message and stamp the conversation.
Counted(conv, now) ==
    [conv EXCEPT !.message_count = @ + 1, !.updated_at = now]

\* Conversation.add_message, lines 110-115: count, stamp, save, return the message.
AddMessageSave(p, next, step) ==
    /\ Wrote(p, "conversation_saves")
    /\ conversation' = [conversation EXCEPT ![p] = Counted(@, ConversationNow)]
    /\ \/ /\ convs' = Put(convs, conversation'[p])
          /\ pc' = [pc EXCEPT ![p] = next]
          /\ UNCHANGED <<faults, err, exc, unsaved>>
       \/ /\ StoreRaises
          /\ Raise(p, step)
          /\ convs' = convs
          /\ unsaved' = unsaved \cup {conversation[p].id}

\* lines 43-47, first half: insert the USER message (status COMPLETED by default).
InsertUserMessage(p) ==
    /\ pc[p] = "insert_user"
    /\ AddMessageInsert(p, UserMessageId(p), UserText(p), "user", "completed",
                        "save_user", "insert_user")
    /\ UNCHANGED <<restVars, otherVars, before>>
    /\ UNCHANGED <<convs, args, lookup, conversation, user_msg, ai_msg, ctx, gen,
                   overlapped, unsaved>>

\* Variant of the turn in which the placeholder is not inserted: after the USER message
\* the invocation goes straight on to the context read.
SaveAfterUserMessage_SkipsPlaceholder(p) ==
    /\ pc[p] = "save_user"
    /\ AddMessageSave(p, "context", "save_user")
    /\ user_msg' = [user_msg EXCEPT ![p] = IF pc'[p] = "context" THEN message[p] ELSE @]
    /\ UNCHANGED <<restVars, otherVars, before>>
    /\ UNCHANGED <<messages, args, lookup, message, ai_msg, ctx, gen, overlapped>>

\* lines 43-47, second half: the save that ends add_message; user_msg is bound on return.
SaveAfterUserMessage(p) ==
    /\ pc[p] = "save_user"
    /\ AddMessageSave(p, "insert_ai", "save_user")
    /\ user_msg' = [user_msg EXCEPT ![p] = IF pc'[p] = "insert_ai" THEN message[p] ELSE @]
    /\ UNCHANGED <<restVars, otherVars, before>>
    /\ UNCHANGED <<messages, args, lookup, message, ai_msg, ctx, gen, overlapped>>

\* lines 49-54, first half: insert the ASSISTANT placeholder in status PROCESSING.
InsertAiMessage(p) ==
    /\ pc[p] = "insert_ai"
    /\ AddMessageInsert(p, AiMessageId(p), None, "assistant", "processing",
                        "save_ai", "insert_ai")
    /\ UNCHANGED <<restVars, otherVars, before>>
    /\ UNCHANGED <<convs, args, lookup, conversation, user_msg, ai_msg, ctx, gen,
                   overlapped, unsaved>>

\* lines 49-54, second half: the save that ends add_message; ai_msg is bound on return.
SaveAfterAiMessage(p) ==
    /\ pc[p] = "save_ai"
    /\ AddMessageSave(p, "context", "save_ai")
    /\ ai_msg' = [ai_msg EXCEPT ![p] = IF pc'[p] = "context" THEN message[p] ELSE @]
    /\ UNCHANGED <<restVars, otherVars, before>>
    /\ UNCHANGED <<messages, args, lookup, message, user_msg, ctx, gen, overlapped>>

\* lines 56-57: read the history and assemble the context.
GetContext(p) ==
    /\ pc[p] = "context"
    /\ \/ /\ ctx' = [ctx EXCEPT ![p] = get_conversation_context(conversation[p])]
          /\ pc' = [pc EXCEPT ![p] = "generate"]
          /\ UNCHANGED <<faults, err, exc>>
       \/ /\ StoreRaises
          /\ Raise(p, "context")
          /\ ctx' = ctx
    /\ UNCHANGED <<restVars, otherVars, before>>
    /\ UNCHANGED writes
    /\ UNCHANGED <<convs, messages, args, lookup, conversation, message, user_msg, ai_msg,
                   gen, overlapped, unsaved>>

\* _get_conversation_context(conversation), called on the stored conversation 1.
CallGetContext(p) ==
    /\ pc[p] = "idle"
    /\ conversation' = [conversation EXCEPT ![p] = convs[1]]
    /\ pc' = [pc EXCEPT ![p] = "context"]
    /\ UNCHANGED <<restVars, otherVars, before>>
    /\ UNCHANGED writes
    /\ UNCHANGED <<convs, messages, faults, args, lookup, message, user_msg, ai_msg, ctx, gen,
                   err, exc, overlapped, unsaved>>

\* lines 66-72: the result is written into the local ai_msg.
WithResult(m, text) ==
    [m EXCEPT !.content = text, !.status = "completed", !.model_used = TRUE,
              !.metadata = "result"]

\* config.py lines 27-28: settings.max_tokens and settings.temperature (in tenths).
SettingsMaxTokens   == 512
SettingsTemperature == 7

\* models.py lines 109-110: `value or default`; None and 0 are both falsy.
OrDefault(value, default) == IF value = Absent \/ value = 0 THEN default ELSE value

\* conversation_manager.py lines 62-63 and models.py lines 109-110: model_config.get(key)
\* is handed to generate_response, which falls back to the settings.
generation_params(model_config) ==
    [max_tokens  |-> OrDefault(model_config.max_tokens, SettingsMaxTokens),
     temperature |-> OrDefault(model_config.temperature, SettingsTemperature)]

\* lines 59-72: the model call returns (text, metadata) or raises.
Generate(p) ==
    /\ pc[p] = "generate"
    /\ gen' = [gen EXCEPT ![p] = generation_params(conversation[p].model_config)]
    /\ \/ /\ model_manager.conversation_pipeline
          /\ ai_msg' = [ai_msg EXCEPT ![p] = WithResult(@, ResponseText(p))]
          /\ pc' = [pc EXCEPT ![p] = "save_result"]
          /\ UNCHANGED <<err, exc>>
       \/ /\ Raise(p, "generate")
          /\ ai_msg' = ai_msg
    /\ UNCHANGED <<restVars, otherVars, before>>
    /\ UNCHANGED writes
    /\ UNCHANGED <<convs, messages, faults, args, lookup, conversation, message, user_msg,
                   ctx, overlapped, unsaved>>

\* line 74: ai_msg.save()
SaveResult(p) ==
    /\ pc[p] = "save_result"
    /\ Wrote(p, "message_updates")
    /\ \/ /\ messages' = Put(messages, ai_msg[p])
          /\ pc' = [pc EXCEPT ![p] = "save_conversation"]
          /\ UNCHANGED <<faults, err, exc>>
       \/ /\ StoreRaises
          /\ Raise(p, "save_result")
          /\ messages' = messages
    /\ UNCHANGED <<restVars, otherVars, before>>
    /\ UNCHANGED <<convs, args, lookup, conversation, message, user_msg, ai_msg, ctx, gen,
                   overlapped, unsaved>>

\* Variant in which the model reports a token count for every response.
TokensUsed_Reported == DefaultMaxTokens

\* metadata.get("tokens_used", 0): generate_response reports no tokens_used.
TokensUsed == 0

\* lines 76-94: add the tokens, save the conversation, return the result.
SaveConversation(p) ==
    /\ pc[p] = "save_conversation"
    /\ Wrote(p, "conversation_saves")
    /\ conversation' = [conversation EXCEPT ![p].total_tokens_used = @ + TokensUsed]
    /\ \/ /\ convs' = Put(convs, conversation'[p])
          /\ pc' = [pc EXCEPT ![p] = "returned"]
          /\ UNCHANGED <<faults, err, exc>>
       \/ /\ StoreRaises
          /\ Raise(p, "save_conversation")
          /\ convs' = convs
    /\ UNCHANGED <<restVars, otherVars, before>>
    /\ UNCHANGED <<messages, args, lookup, message, user_msg, ai_msg, ctx, gen,
                   overlapped, unsaved>>

\* lines 88-94: the dictionary a successful invocation returns.
Result(p) ==
    [conversation_id |-> conversation[p].id, user_message_id |-> user_msg[p].id,
     ai_message_id |-> ai_msg[p].id, response |-> ai_msg[p].content]

\* chat.py lines 58-64: the ChatResponse of POST /chat; it carries the conversation id
\* the client sent when there is one, else the id in the result.
send_message(p) ==
    [Result(p) EXCEPT !.conversation_id =
        IF args[p].conversation_id # None THEN args[p].conversation_id ELSE @]

\* websocket.py lines 205-219: the message_sent and ai_response frames of a
\* chat_message; both carry str(conv_id) if conv_id else result["conversation_id"].
handle_chat_message(p) ==
    LET conversation_id == IF args[p].conversation_id # None
                           THEN args[p].conversation_id
                           ELSE Result(p).conversation_id
    IN  [message_sent |-> [message_id |-> Result(p).user_message_id,
                           conversation_id |-> conversation_id],
         ai_response  |-> [message_id |-> Result(p).ai_message_id,
                           conversation_id |-> conversation_id,
                           content |-> Result(p).response]]

\* Variants of the failure record: one that leaves the status as it is, one that
\* records no error text.
WithError_KeepsStatus(m) == [m EXCEPT !.metadata = "error"]
WithError_NoNote(m) == [m EXCEPT !.status = "failed"]

\* lines 105-107: the local ai_msg is marked FAILED with the error note.
WithError(m) == [m EXCEPT !.status = "failed", !.metadata = "error"]

\* lines 104-110: write FAILED, then re-raise; a failing write raises instead.
FailWrite(p) ==
    /\ pc[p] = "fail_write"
    /\ Wrote(p, "message_updates")
    /\ ai_msg' = [ai_msg EXCEPT ![p] = WithError(@)]
    /\ pc' = [pc EXCEPT ![p] = "raised"]
    /\ \/ /\ messages' = Put(messages, ai_msg'[p])
          /\ exc' = [exc EXCEPT ![p] = err[p]]
          /\ UNCHANGED faults
       \/ /\ StoreRaises
          /\ exc' = [exc EXCEPT ![p] = "fail_write"]
          /\ messages' = messages
    /\ UNCHANGED <<restVars, otherVars, before>>
    /\ UNCHANGED <<convs, args, lookup, conversation, message, user_msg, ctx, gen, err,
                   overlapped, unsaved>>

process_user_message(p) ==
    \/ StartNew(p)
    \/ GetConversation(p)
    \/ CreateConversation(p)
    \/ InsertUserMessage(p)
    \/ SaveAfterUserMessage(p)
    \/ InsertAiMessage(p)
    \/ SaveAfterAiMessage(p)
    \/ GetContext(p)
    \/ Generate(p)
    \/ SaveResult(p)
    \/ SaveConversation(p)
    \/ FailWrite(p)

\* ------------------------------------ update / archive / restore (REST)
RequestsStarted(r) == \A q \in Reqs : q < r => rpc[q] # "idle"

\* Variant of the 404 test that lets every user through to a stored conversation.
Found_ForAnyone(id, user_id) == id \in DOMAIN convs

\* conversations.py line 135 (and 269, 303; chat.py line 217): the negation of
\* "not conversation or conversation.user_id != current_user.id".
Found(id, user_id) == id \in DOMAIN convs /\ convs[id].user_id = user_id

\* conversations.py lines 133-140, 266-273, 300-307: Conversation.get and the 404 test.
\* An update that sets nothing (line 157) answers without a save.
GetForRequest(r) ==
    /\ app = "serving"
    /\ rpc[r] = "idle"
    /\ RequestsStarted(r)
    /\ \E op \in {"update", "archive", "restore"}, id \in ConvIdInputs :
       \E u \in Callers(id), patch \in (IF op = "update" THEN Patches ELSE {NoPatch}) :
         /\ rargs' = [rargs EXCEPT ![r] = [op |-> op, conversation_id |-> id,
                                           user_id |-> u, patch |-> patch]]
         /\ \/ /\ IF Found(id, u)
                  THEN IF op = "update" /\ patch = NoPatch
                       THEN /\ rpc' = [rpc EXCEPT ![r] = "ok"]
                            /\ UNCHANGED <<rconv, loaded, overlapped>>
                       ELSE /\ rpc' = [rpc EXCEPT ![r] = "loaded"]
                            /\ rconv' = [rconv EXCEPT ![r] = convs[id]]
                            /\ loaded' = [loaded EXCEPT ![r] = convs[id]]
                            /\ Load(id)
                  ELSE /\ rpc' = [rpc EXCEPT ![r] = "not_found"]
                       /\ UNCHANGED <<rconv, loaded, overlapped>>
               /\ faults' = faults
            \/ /\ StoreRaises
               /\ rpc' = [rpc EXCEPT ![r] = "error"]
               /\ UNCHANGED <<rconv, loaded, overlapped>>
    /\ UNCHANGED <<callVars, otherVars>>
    /\ UNCHANGED <<convs, messages, unsaved>>

\* Variant of the merge that replaces the mapping by the patch.
Merged_Replaces(model_config, patch) == [k \in DOMAIN model_config |-> patch[k]]

\* dict.update: the patch's keys take the patch's values, the other keys stay.
Merged(model_config, patch) ==
    [k \in DOMAIN model_config |-> IF patch[k] # Absent THEN patch[k] ELSE model_config[k]]

\* Variant of the request's changes in which restore stamps the conversation but leaves
\* its status as it found it.
Applied_RestoreKeepsStatus(conv, req, now) ==
    LET titled == IF req.op = "update" /\ req.patch.title # NoneStr
                  THEN [conv EXCEPT !.title = req.patch.title] ELSE conv
        stated == IF req.op = "archive" THEN [titled EXCEPT !.status = "archived"]
                  ELSE IF req.op = "restore" THEN titled
                  ELSE IF req.patch.status # NoneStr
                  THEN [titled EXCEPT !.status = req.patch.status] ELSE titled
        config == IF req.op = "update" /\ req.patch.model_config.given
                  THEN [stated EXCEPT !.model_config =
                          [k \in DOMAIN @ |-> IF req.patch.model_config[k] # Absent
                                              THEN req.patch.model_config[k] ELSE @[k]]]
                  ELSE stated
    IN  [config EXCEPT !.updated_at = now]

\* conversations.py lines 142-158 (update), 275-276 (archive), 309-310 (restore):
\* the fields the request sets on its in-memory conversation.
Applied(conv, req, now) ==
    LET titled == IF req.op = "update" /\ req.patch.title # NoneStr
                  THEN [conv EXCEPT !.title = req.patch.title] ELSE conv
        stated == IF req.op = "archive" THEN [titled EXCEPT !.status = "archived"]
                  ELSE IF req.op = "restore" THEN [titled EXCEPT !.status = "active"]
                  ELSE IF req.patch.status # NoneStr
                  THEN [titled EXCEPT !.status = req.patch.status] ELSE titled
        config == IF req.op = "update" /\ req.patch.model_config.given
                  THEN [stated EXCEPT !.model_config = Merged(@, req.patch.model_config)]
                  ELSE stated
    IN  [config EXCEPT !.updated_at = now]

\* conversations.py lines 142-171, 275-281, 309-315: set the fields, stamp, save.
SaveForRequest(r) ==
    /\ rpc[r] = "loaded"
    /\ rconv' = [rconv EXCEPT ![r] = Applied(@, rargs[r], ConversationNow)]
    /\ \/ /\ convs' = Put(convs, rconv'[r])
          /\ rpc' = [rpc EXCEPT ![r] = "ok"]
          /\ faults' = faults
       \/ /\ StoreRaises
          /\ rpc' = [rpc EXCEPT ![r] = "error"]
          /\ convs' = convs
    /\ UNCHANGED <<callVars, otherVars>>
    /\ UNCHANGED <<messages, rargs, loaded, overlapped, unsaved>>

rest_request(r) ==
    \/ GetForRequest(r)
    \/ SaveForRequest(r)

\* ------------------------------------------------ delete_conversation (REST)
\* Document.delete / FindMany.delete: the documents with these ids leave the collection.
Remove(coll, ids) == [i \in DOMAIN coll \ ids |-> coll[i]]

\* chat.py lines 214-221: Conversation.get and the 404 test.
GetForDelete(r) ==
    /\ app = "serving"
    /\ rpc[r] = "idle"
    /\ \E id \in ConvIdInputs :
       \E u \in Callers(id) :
         /\ rargs' = [rargs EXCEPT ![r] = [op |-> "delete", conversation_id |-> id,
                                           user_id |-> u, patch |-> NoPatch]]
         /\ \/ /\ IF Found(id, u)
                  THEN /\ rpc' = [rpc EXCEPT ![r] = "delete_messages"]
                       /\ rconv' = [rconv EXCEPT ![r] = convs[id]]
                       /\ loaded' = [loaded EXCEPT ![r] = convs[id]]
                       /\ Load(id)
                  ELSE /\ rpc' = [rpc EXCEPT ![r] = "not_found"]
                       /\ UNCHANGED <<rconv, loaded, overlapped>>
               /\ faults' = faults
            \/ /\ StoreRaises
               /\ rpc' = [rpc EXCEPT ![r] = "error"]
               /\ UNCHANGED <<rconv, loaded, overlapped>>
    /\ UNCHANGED <<callVars, otherVars>>
    /\ UNCHANGED <<convs, messages, unsaved>>

\* chat.py lines 223-224: delete the messages the conversation has at this moment.
DeleteMessages(r) ==
    /\ rpc[r] = "delete_messages"
    /\ \/ /\ messages' = Remove(messages, MessagesOf(rargs[r].conversation_id))
          /\ rpc' = [rpc EXCEPT ![r] = "delete_conversation"]
          /\ faults' = faults
       \/ /\ StoreRaises
          /\ rpc' = [rpc EXCEPT ![r] = "error"]
          /\ messages' = messages
    /\ UNCHANGED <<callVars, otherVars>>
    /\ UNCHANGED <<convs, rargs, rconv, loaded, overlapped, unsaved>>

\* chat.py lines 226-229: delete the conversation document and answer.
DeleteConversation(r) ==
    /\ rpc[r] = "delete_conversation"
    /\ \/ /\ convs' = Remove(convs, {rconv[r].id})
          /\ rpc' = [rpc EXCEPT ![r] = "ok"]
          /\ faults' = faults
       \/ /\ StoreRaises
          /\ rpc' = [rpc EXCEPT ![r] = "error"]
          /\ convs' = convs
    /\ UNCHANGED <<callVars, otherVars>>
    /\ UNCHANGED <<messages, rargs, rconv, loaded, overlapped, unsaved>>

delete_conversation(r) ==
    \/ GetForDelete(r)
    \/ DeleteMessages(r)
    \/ DeleteConversation(r)

\* ------------------------------------- get_conversation, get_conversation_messages
\* chat.py lines 130-137 and conversations.py lines 88-95: Conversation.get and the 404
\* test of the two read operations.
GetForRead(r) ==
    /\ app = "serving"
    /\ rpc[r] = "idle"
    /\ \E op \in {"get", "messages"}, id \in ConvIdInputs :
       \E u \in Callers(id) :
         /\ rargs' = [rargs EXCEPT ![r] = [op |-> op, conversation_id |-> id,
                                           user_id |-> u, patch |-> NoPatch]]
         /\ \/ /\ IF Found(id, u)
                  THEN /\ rpc' = [rpc EXCEPT ![r] = "read_messages"]
                       /\ rconv' = [rconv EXCEPT ![r] = convs[id]]
                       /\ loaded' = [loaded EXCEPT ![r] = convs[id]]
                  ELSE /\ rpc' = [rpc EXCEPT ![r] = "not_found"]
                       /\ UNCHANGED <<rconv, loaded>>
               /\ faults' = faults
            \/ /\ StoreRaises
               /\ rpc' = [rpc EXCEPT ![r] = "error"]
               /\ UNCHANGED <<rconv, loaded>>
    /\ UNCHANGED <<callVars, otherVars>>
    /\ UNCHANGED <<convs, messages, overlapped, unsaved>>

\* chat.py lines 139-163 and conversations.py lines 97-113: the messages are queried and
\* the response is built; nothing is written.
ReadMessages(r) ==
    /\ rpc[r] = "read_messages"
    /\ \/ /\ rpc' = [rpc EXCEPT ![r] = "ok"]
          /\ faults' = faults
       \/ /\ StoreRaises
          /\ rpc' = [rpc EXCEPT ![r] = "error"]
    /\ UNCHANGED <<callVars, otherVars>>
    /\ UNCHANGED <<convs, messages, rargs, rconv, loaded, overlapped, unsaved>>

read_conversation(r) ==
    \/ GetForRead(r)
    \/ ReadMessages(r)

\* ------------------------------------------------------- register_user
NewUserId(g) == TestUser.id + g

\* The stored users a registration conflicts with.
Matching(email, username) ==
    {i \in DOMAIN users : users[i].email = email \/ users[i].username = username}

\* Everything a registration step leaves alone.
nonUserVars == <<convs, messages, callVars, restVars, overlapped, unsaved, wsVars, appVars,
                 chat, rateVars>>

\* users.py lines 53-67: find_one with $or answers one of the matching users; the
\* request is refused with the message chosen by that user's email.
FindExisting(g) ==
    /\ app = "serving"
    /\ reg[g].pc = "idle"
    /\ \A h \in Regs : h < g => reg[h].pc # "idle"
    /\ \E email \in Emails, username \in Usernames :
         LET request == [NoRegistration EXCEPT
                           !.email = email, !.username = username,
                           !.email_registered = \E i \in DOMAIN users : users[i].email = email]
         IN  \/ /\ Matching(email, username) = {}
                /\ reg' = [reg EXCEPT ![g] = [request EXCEPT !.pc = "insert"]]
                /\ faults' = faults
             \/ /\ \E existing_user \in Matching(email, username) :
                      reg' = [reg EXCEPT ![g] =
                                [request EXCEPT
                                   !.pc = "answered",
                                   !.answer = IF users[existing_user].email = email
                                              THEN "Email already registered"
                                              ELSE "Username already taken"]]
                /\ faults' = faults
             \/ /\ StoreRaises
                /\ reg' = [reg EXCEPT ![g] = [request EXCEPT !.pc = "answered",
                                                             !.answer = "Failed to register user"]]
    /\ UNCHANGED <<users, unique_indexes>>
    /\ UNCHANGED nonUserVars

\* users.py lines 69-100 and user.py lines 16-17: the insert; a unique index that is
\* enforced rejects a duplicate email or username, and every exception but HTTPException
\* is answered with 500.
InsertUser(g) ==
    /\ reg[g].pc = "insert"
    /\ \/ /\ ~(unique_indexes /\ Matching(reg[g].email, reg[g].username) # {})
          /\ users' = Put(users, [id |-> NewUserId(g), email |-> reg[g].email,
                                  username |-> reg[g].username])
          /\ reg' = [reg EXCEPT ![g].pc = "answered", ![g].answer = "registered"]
          /\ faults' = faults
       \/ /\ unique_indexes /\ Matching(reg[g].email, reg[g].username) # {}
          /\ reg' = [reg EXCEPT ![g].pc = "answered", ![g].answer = "Failed to register user"]
          /\ UNCHANGED <<users, faults>>
       \/ /\ StoreRaises
          /\ reg' = [reg EXCEPT ![g].pc = "answered", ![g].answer = "Failed to register user"]
          /\ users' = users
    /\ UNCHANGED unique_indexes
    /\ UNCHANGED nonUserVars

register_user(g) ==
    \/ FindExisting(g)
    \/ InsertUser(g)

\* ------------------------------------------------------------- startup
\* Variant of startup in which a failed initialization keeps the application from
\* serving.
AfterStartup_Propagates(manager) == IF manager.raised THEN "aborted" ELSE "serving"

\* main.py lines 68-75: initialize_models runs inside try/except Exception, which logs
\* a warning; the application serves whatever the initialization did.
AfterStartup(manager) == "serving"

\* startup_event, main.py lines 59-75: init_database is awaited outside the try, so a
\* database that cannot be reached aborts the startup; then the models are initialized.
startup_event ==
    /\ app = "starting"
    /\ \/ /\ app' = "aborted"
          /\ model_manager' = model_manager
       \/ \E failure \in {"none", "conversation", "embedding"} :
             /\ model_manager' = initialize_models(failure)
             /\ app' = AfterStartup(model_manager')
    /\ UNCHANGED <<convs, messages, faults, callVars, restVars, overlapped, unsaved, wsVars,
                   userVars, chat, rateVars>>

\* ------------------------------------------------- WebSocket connections
\* What every WebSocket step leaves alone.
chatVars == <<convs, messages, faults, callVars, restVars, overlapped, unsaved, appVars,
              userVars, chat, rateVars>>

\* Variant of disconnect that never touches user_connections.
disconnect_ActiveOnly(connection_id, user_id) ==
    /\ active_connections' = active_connections \ {connection_id}
    /\ user_connections' = user_connections

\* ConnectionManager.disconnect, websocket.py lines 40-46: drop the connection's entry,
\* and the user's entry when a user_id is given and has one.
disconnect(connection_id, user_id) ==
    /\ active_connections' = active_connections \ {connection_id}
    /\ user_connections' = IF user_id # None
                           THEN [user_connections EXCEPT ![user_id] = None]
                           ELSE user_connections

\* The handler of connection c moves to pc.
Goto(c, to) == handler' = [handler EXCEPT ![c].pc = to]

\* lines 129-134 and 275-279: both except branches call manager.disconnect with the
\* handler's connection_id and user id, and the handler exits.
HandlerExit(c) ==
    /\ disconnect(c, handler[c].user)
    /\ Goto(c, "exited")

\* lines 105-110 and 254-259: get_user_from_token; without a user the socket is closed
\* and the handler returns before anything is registered.
Authenticate(c) ==
    /\ app = "serving"
    /\ handler[c].pc = "idle"
    /\ \A d \in Conns : d < c => handler[d].pc # "idle"
    /\ \E e \in Endpoints :
         \/ \E u \in Users : handler' = [handler EXCEPT ![c] =
                                            [pc |-> "connect", endpoint |-> e, user |-> u]]
         \/ handler' = [handler EXCEPT ![c] = [pc |-> "rejected", endpoint |-> e, user |-> None]]
    /\ UNCHANGED <<active_connections, user_connections, registered, broadcast, personal>>
    /\ UNCHANGED chatVars

\* ConnectionManager.connect, lines 27-31: after accept() both entries are written; an
\* accept() that raises is caught by the endpoint.
Connect(c) ==
    /\ handler[c].pc = "connect"
    /\ \/ /\ active_connections' = active_connections \cup {c}
          /\ user_connections' = [user_connections EXCEPT ![handler[c].user] = c]
          /\ registered' = registered \cup {c}
          /\ Goto(c, "welcome")
       \/ /\ HandlerExit(c)
          /\ registered' = registered
    /\ UNCHANGED <<broadcast, personal>>
    /\ UNCHANGED chatVars

\* lines 115-119 and 264-267: the greeting is sent; a send that raises ends the handler.
Welcome(c) ==
    /\ handler[c].pc = "welcome"
    /\ \/ /\ Goto(c, "receive")
          /\ UNCHANGED <<active_connections, user_connections>>
       \/ HandlerExit(c)
    /\ UNCHANGED <<registered, broadcast, personal>>
    /\ UNCHANGED chatVars

\* lines 123 and 271: receive_text returns a frame, or raises WebSocketDisconnect.
Receive(c) ==
    /\ handler[c].pc = "receive"
    /\ \/ /\ Goto(c, "handle")
          /\ UNCHANGED <<active_connections, user_connections>>
       \/ HandlerExit(c)
    /\ UNCHANGED <<registered, broadcast, personal>>
    /\ UNCHANGED chatVars

\* lines 125-138: the chat endpoint handles the frame inside its own try; a frame that is
\* not JSON, or a handler that raises, is answered with an error frame.
\* lines 273-274: the notifications endpoint answers a ping; its send is not guarded.
Handle(c) ==
    /\ handler[c].pc = "handle"
    /\ \/ /\ Goto(c, "receive")
          /\ UNCHANGED <<active_connections, user_connections>>
       \/ /\ handler[c].endpoint = "chat"
          /\ Goto(c, "reply_error")
          /\ UNCHANGED <<active_connections, user_connections>>
       \/ /\ handler[c].endpoint = "notifications"
          /\ HandlerExit(c)
    /\ UNCHANGED <<registered, broadcast, personal>>
    /\ UNCHANGED chatVars

\* lines 128-138: the error frame is sent from inside the except branch; if that send
\* raises, the exception reaches the outer except branches.
ReplyError(c) ==
    /\ handler[c].pc = "reply_error"
    /\ \/ /\ Goto(c, "receive")
          /\ UNCHANGED <<active_connections, user_connections>>
       \/ HandlerExit(c)
    /\ UNCHANGED <<registered, broadcast, personal>>
    /\ UNCHANGED chatVars

websocket_endpoint(c) ==
    \/ Authenticate(c)
    \/ Connect(c)
    \/ Welcome(c)
    \/ Receive(c)
    \/ Handle(c)
    \/ ReplyError(c)

\* ConnectionManager.broadcast, lines 71-77: one send per registered socket; the ids whose
\* send raised are collected.
BroadcastSend ==
    /\ broadcast.pc = "idle"
    /\ \E failed \in SUBSET active_connections :
         broadcast' = [pc |-> "cleanup", disconnected |-> failed]
    /\ UNCHANGED <<active_connections, user_connections, handler, registered, personal>>
    /\ UNCHANGED chatVars

\* lines 79-81: disconnect(connection_id) for every collected id, without a user id.
BroadcastCleanup ==
    /\ broadcast.pc = "cleanup"
    /\ active_connections' = active_connections \ broadcast.disconnected
    /\ user_connections' = user_connections
    /\ broadcast' = [pc |-> "idle", disconnected |-> {}]
    /\ UNCHANGED <<handler, registered, personal>>
    /\ UNCHANGED chatVars

\* ConnectionManager.send_personal_message, lines 57-61: look the user's socket up and
\* start the send.
PersonalSend ==
    /\ personal.pc = "idle"
    /\ \E u \in Users :
         /\ user_connections[u] # None
         /\ user_connections[u] \in active_connections
         /\ personal' = [pc |-> "sending", connection_id |-> user_connections[u], user_id |-> u]
    /\ UNCHANGED <<active_connections, user_connections, handler, registered, broadcast>>
    /\ UNCHANGED chatVars

\* lines 61-66: the send returns, or raises and the connection is disconnected.
PersonalDone ==
    /\ personal.pc = "sending"
    /\ \/ UNCHANGED <<active_connections, user_connections>>
       \/ disconnect(personal.connection_id, personal.user_id)
    /\ personal' = [pc |-> "idle", connection_id |-> None, user_id |-> None]
    /\ UNCHANGED <<handler, registered, broadcast>>
    /\ UNCHANGED chatVars

\* ------------------------------------------------ WebSocket chat_message
\* What the steps of handle_chat_message leave alone.
handlerVars == <<convs, messages, faults, callVars, restVars, overlapped, unsaved, wsVars,
                 appVars, userVars, rateVars>>

\* The content of a frame, as its sequence of characters, and what its conversation_id
\* is: missing, null or "" ("absent"), the text of an ObjectId, or anything else.
Contents == {<<>>, <<" ">>, <<"h">>, <<" ", "h", " ">>}
ConversationIdKinds == {"absent", "object_id", "malformed"}

\* str.strip(): the string without its leading and trailing blanks.
RECURSIVE LStrip(_)
LStrip(s) == IF s # <<>> /\ Head(s) = " " THEN LStrip(Tail(s)) ELSE s
Strip(s) == Reverse(LStrip(Reverse(LStrip(s))))

\* Variant of the emptiness test that does not strip the content first.
IsEmpty_Unstripped(content) == content = <<>>

\* websocket.py lines 169 and 172: content = ....strip(), then `if not content`.
IsEmpty(content) == Strip(content) = <<>>

\* websocket.send_text returned: the frame is sent and the handler goes on at `to`.
Sent(p, type, to) == chat' = [chat EXCEPT ![p].sent = Append(@, type), ![p].pc = to]

\* websocket.send_text raised: nothing is sent and the exception is handled at `to`.
SendRaised(p, to) == chat' = [chat EXCEPT ![p].send_raised = TRUE, ![p].pc = to]

\* lines 125-129, 153-154 and 168-172: a chat_message frame is received and dispatched;
\* a content that is not a string makes .strip() raise, which the handler's except
\* branch catches.
ReceiveChatMessage(p) ==
    /\ app = "serving"
    /\ chat[p].pc = "none"
    /\ pc[p] = "idle"
    /\ Started(p)
    /\ \E kind \in ConversationIdKinds :
         \/ \E content \in Contents :
              chat' = [chat EXCEPT ![p] =
                         [NoChatMessage EXCEPT !.content = content, !.conversation_id = kind,
                              !.pc = IF IsEmpty(content) THEN "empty_error" ELSE "typing"]]
         \/ chat' = [chat EXCEPT ![p] =
                       [NoChatMessage EXCEPT !.is_str = FALSE, !.conversation_id = kind,
                                             !.pc = "except"]]
    /\ UNCHANGED handlerVars

\* lines 172-177: empty content is answered with an error frame and the handler returns.
SendEmptyError(p) ==
    /\ chat[p].pc = "empty_error"
    /\ \/ Sent(p, "error", "done")
       \/ SendRaised(p, "except")
    /\ UNCHANGED handlerVars

\* lines 180-195: the typing indicator is sent, then the conversation_id is converted.
SendTyping(p) ==
    /\ chat[p].pc = "typing"
    /\ \/ Sent(p, "ai_typing",
                IF chat[p].conversation_id = "malformed" THEN "invalid_error" ELSE "process")
       \/ SendRaised(p, "except")
    /\ UNCHANGED handlerVars

\* lines 187-195: ObjectId(conversation_id) raised; an error frame, and the handler
\* returns.
SendInvalidError(p) ==
    /\ chat[p].pc = "invalid_error"
    /\ \/ Sent(p, "error", "done")
       \/ SendRaised(p, "except")
    /\ UNCHANGED handlerVars

\* lines 198-211: process_user_message has returned; the confirmation is sent.
SendMessageSent(p) ==
    /\ chat[p].pc = "process"
    /\ pc[p] = "returned"
    /\ \/ Sent(p, "message_sent", "response")
       \/ SendRaised(p, "except")
    /\ UNCHANGED handlerVars

\* lines 214-220: the AI response is sent.
SendAiResponse(p) ==
    /\ chat[p].pc = "response"
    /\ \/ Sent(p, "ai_response", "done")
       \/ SendRaised(p, "except")
    /\ UNCHANGED handlerVars

\* lines 229-234: whatever was raised inside the handler's try, process_user_message's
\* exception included, is answered with an error frame; a send that raises here leaves
\* the handler.
SendFailedError(p) ==
    /\ \/ chat[p].pc = "except"
       \/ chat[p].pc = "process" /\ pc[p] = "raised"
    /\ \/ Sent(p, "error", "done")
       \/ SendRaised(p, "endpoint_except")
    /\ UNCHANGED handlerVars

\* lines 135-146: the endpoint's own except branch sends an error frame as well; if that
\* send raises too, the outer except branch disconnects.
SendEndpointError(p) ==
    /\ chat[p].pc = "endpoint_except"
    /\ \/ Sent(p, "error", "done")
       \/ SendRaised(p, "disconnected")
    /\ UNCHANGED handlerVars

chat_message(p) ==
    \/ ReceiveChatMessage(p)
    \/ SendEmptyError(p)
    \/ SendTyping(p)
    \/ SendInvalidError(p)
    \/ SendMessageSent(p)
    \/ SendAiResponse(p)
    \/ SendFailedError(p)
    \/ SendEndpointError(p)

\* ------------------------------------------------------------ RateLimiter
\* What the rate limiter leaves alone.
nonRateVars == <<convs, messages, faults, callVars, restVars, overlapped, unsaved, wsVars,
                 appVars, userVars, chat>>

Identifiers == 1..NumIdentifiers

\* Variant of the window test that forgets a request one second early.
Fresh_Early(req_time, now) == now - req_time < window_seconds - 1

\* security.py line 29: a recorded request is kept while it is younger than the window.
Fresh(req_time, now) == now - req_time < window_seconds

\* lines 26-32: the identifier's list without its old requests; an identifier not seen
\* before gets an empty list.
Cleaned(identifier, now) ==
    IF identifier \in DOMAIN requests
    THEN SelectSeq(requests[identifier], LAMBDA req_time : Fresh(req_time, now))
    ELSE <<>>

\* lines 35-36: the answer, given the cleaned list.
UnderLimit(recorded) == Len(recorded) < max_requests

\* Variant that records every call, denied ones included.
Recorded_Always(recorded, now, allowed) == Append(recorded, now)

\* lines 35-40: only a call that is allowed is appended.
Recorded(recorded, now, allowed) == IF allowed THEN Append(recorded, now) ELSE recorded

\* time.time() between two calls: the clock does not go back.
Tick ==
    /\ current_time < MaxTime
    /\ current_time' = current_time + 1
    /\ UNCHANGED <<requests, answers>>
    /\ UNCHANGED nonRateVars

\* RateLimiter.is_allowed, lines 21-40.
is_allowed(identifier) ==
    /\ Len(answers) < MaxChecks
    /\ LET recorded == Cleaned(identifier, current_time)
           allowed  == UnderLimit(recorded)
       IN  /\ requests' = [i \in DOMAIN requests \cup {identifier} |->
                             IF i = identifier THEN Recorded(recorded, current_time, allowed)
                                               ELSE requests[i]]
           /\ answers' = Append(answers, [identifier |-> identifier, time |-> current_time,
                                          allowed |-> allowed])
    /\ current_time' = current_time
    /\ UNCHANGED nonRateVars

\* ------------------------------------------------------- specifications
\* Chat traffic: MaxCalls invocations of process_user_message, interleaved.
Next == \E p \in Calls : process_user_message(p)

Spec == Init /\ [][Next]_vars

\* One chat invocation interleaved with the conversation-management requests.
NextOps ==
    \/ process_user_message(1)
    \/ \E r \in Reqs : rest_request(r)

SpecOps == Init /\ [][NextOps]_vars

\* Context assembly on its own, over every stored history.
NextContext == CallGetContext(1) \/ GetContext(1)

SpecContext == InitHistory /\ [][NextContext]_vars

\* One chat invocation interleaved with one delete request.
NextDelete ==
    \/ process_user_message(1)
    \/ delete_conversation(1)

SpecDelete == Init /\ [][NextDelete]_vars

\* One chat invocation on a conversation with generation overrides.
NextConfig == process_user_message(1)

SpecConfig == InitConfig /\ [][NextConfig]_vars

\* WebSocket connections: MaxConns endpoint handlers, broadcasts and personal messages.
NextWs ==
    \/ \E c \in Conns : websocket_endpoint(c)
    \/ BroadcastSend
    \/ BroadcastCleanup
    \/ PersonalSend
    \/ PersonalDone

SpecWs == Init /\ [][NextWs]_vars

\* The application before startup: nothing is loaded and nothing is served yet.
InitStartup ==
    /\ convs = [i \in {1} |-> Conversation(1, 1, "Test Conversation", DefaultModelConfig,
                                          DefaultContextWindow, 0)]
    /\ messages = [i \in {} |-> NoDoc]
    /\ app = "starting"
    /\ model_manager = Unloaded
    /\ unique_indexes = TRUE
    /\ NoTraffic

\* Startup, then one chat invocation, one update / archive / restore request and one
\* delete request.
NextStartup ==
    \/ startup_event
    \/ process_user_message(1)
    \/ rest_request(1)
    \/ delete_conversation(2)

SpecStartup == InitStartup /\ [][NextStartup]_vars

\* Registrations: MaxRegs requests, interleaved, on a store that holds the test user.
NextUsers == \E g \in Regs : register_user(g)

\* user.py lines 16-17 declare email and username Indexed(unique=True), and lines 30-34
\* declare plain indexes on the same keys in Settings.indexes: whether the collection
\* ends up enforcing uniqueness depends on how the ODM merges the two declarations.
InitUsers ==
    /\ convs = [i \in {1} |-> Conversation(1, 1, "Test Conversation", DefaultModelConfig,
                                          DefaultContextWindow, 0)]
    /\ messages = [i \in {} |-> NoDoc]
    /\ app = "serving"
    /\ model_manager = initialize_models("none")
    /\ unique_indexes \in BOOLEAN
    /\ NoTraffic

SpecUsers == InitUsers /\ [][NextUsers]_vars

\* Access to a conversation: one chat invocation and two requests by either user; the
\* first is a get, list messages, update, archive or restore, the second a get, list
\* messages or delete.
NextAccess ==
    \/ process_user_message(1)
    \/ rest_request(1)
    \/ \E r \in Reqs : read_conversation(r)
    \/ delete_conversation(2)

SpecAccess == Init /\ [][NextAccess]_vars

\* One chat_message over a WebSocket and the invocation it leads to.
NextChat ==
    \/ chat_message(1)
    \/ process_user_message(1)

SpecChat == Init /\ [][NextChat]_vars

\* Calls of one RateLimiter for several identifiers, as the clock advances.
NextRate ==
    \/ Tick
    \/ \E identifier \in Identifiers : is_allowed(identifier)

\* The rate limiter does not read the store: one content of it is enough.
InitRate == Init /\ convs[1].context_window = 0

SpecRate == InitRate /\ [][NextRate]_vars

\* ================================================================ claims
Finished(p) == pc[p] \in {"returned", "raised"}

\* The stored assistant message of invocation p, once inserted.
AiStored(p)   == AiMessageId(p) \in DOMAIN messages
AiStatus(p)   == messages[AiMessageId(p)].status

\* C1: a call whose conversation_id is absent from the store, or belongs to another
\* user, fails with NotFound: it never returns a success result.
C1_MissFailsNotFound ==
    \A p \in Calls : lookup[p] \in {"absent", "foreign"} => pc[p] # "returned"

\* C2: a call whose conversation_id references another user's conversation leaves the
\* store unchanged: none of its steps inserts a message or creates or modifies a
\* conversation.
C2_ForeignLeavesStore ==
    [][\A p \in Calls :
          (lookup[p] = "foreign" /\ pc'[p] # pc[p]) => (convs' = convs /\ messages' = messages)]_vars

\* C3: an ASSISTANT message that is stored as COMPLETED or FAILED is never written
\* again: no step changes its status or any other field.
C3_TerminalIsFinal ==
    [][\A m \in DOMAIN messages :
          (messages[m].message_type = "assistant"
             /\ messages[m].status \in {"completed", "failed"})
          => (m \in DOMAIN messages' /\ messages'[m] = messages[m])]_vars

\* The model call of invocation p has returned / has raised.
ModelReturned(p) ==
    \/ pc[p] \in {"save_result", "save_conversation", "returned"}
    \/ err[p] \in {"save_result", "save_conversation"}
ModelRaised(p) == err[p] = "generate"

\* This step moves the stored assistant message of p from PROCESSING to `status`.
Moves(p, status) ==
    /\ AiStored(p) /\ AiStatus(p) = "processing"
    /\ AiMessageId(p) \in DOMAIN messages' /\ messages'[AiMessageId(p)].status = status

\* This step ends invocation p.
Ends(p) == ~Finished(p) /\ Finished(p)'

\* C4 as stated: the assistant message moves PROCESSING -> COMPLETED iff the model call
\* of its invocation returned, and PROCESSING -> FAILED iff that call raised.
C4_TransitionIffModel ==
    [][\A p \in Calls :
          /\ Moves(p, "completed") => ModelReturned(p)
          /\ Moves(p, "failed") => ModelRaised(p)
          /\ (Ends(p) /\ ModelReturned(p)') => (pc'[p] = "returned" \/ err'[p] = "save_conversation")
          /\ (Ends(p) /\ ModelRaised(p)') => (AiStatus(p) = "failed")']_vars

\* C4 amended: PROCESSING -> COMPLETED happens only if the model call returned, and it
\* happens in the step in which the result write succeeds; PROCESSING -> FAILED happens
\* only if the model call, the context read or the result write raised, and when the
\* model call raised it happens in the step in which the failure write succeeds.
C4_TransitionFollowsOutcome ==
    [][\A p \in Calls :
          /\ Moves(p, "completed") => ModelReturned(p)
          /\ Moves(p, "failed") => err[p] \in {"generate", "context", "save_result"}
          /\ (pc[p] = "save_result" /\ pc'[p] = "save_conversation") => Moves(p, "completed")
          /\ (pc[p] = "fail_write" /\ pc'[p] = "raised" /\ ModelRaised(p)
                 /\ exc'[p] # "fail_write") => Moves(p, "failed")]_vars

\* C4 witness: a model call returned but its result write raised, and the failure write
\* then moved the message to FAILED.
C4_Witness ==
    \E p \in Calls :
        /\ pc[p] = "raised" /\ err[p] = "save_result" /\ exc[p] = "save_result"
        /\ AiStatus(p) = "failed"

\* C5: once an invocation has returned or raised, the assistant placeholder it inserted is
\* no longer PROCESSING, unless the write that reconciles it (line 74 or line 108) raised.
C5_NeverLeftProcessing ==
    \A p \in Calls :
        (Finished(p) /\ AiStored(p) /\ exc[p] # "fail_write" /\ err[p] # "save_result")
        => AiStatus(p) # "processing"

\* The stored message_count of the conversation invocation p works on.
StoredCount(p) == convs[conversation[p].id].message_count

Quiet(c) == CallsHolding(c) = {} /\ ReqsHolding(c) = {}
Counts(c) == convs[c].message_count = Cardinality(MessagesOf(c))

C8_LostUpdate ==
    \A p, q \in Calls :
        (p # q /\ pc[p] = "returned" /\ pc[q] = "returned"
           /\ conversation[p].id = conversation[q].id /\ before[p] = before[q])
        => convs[conversation[p].id].message_count
             < Cardinality(MessagesOf(conversation[p].id))

\* C8 witness: both invocations have completed on conversation 1, four messages are
\* stored and message_count is 2.
C8_Witness ==
    /\ \A p \in Calls : pc[p] = "returned" /\ conversation[p].id = 1
    /\ Cardinality(MessagesOf(1)) = 4
    /\ convs[1].message_count = 2
    /\ 1 \in overlapped

\* C9 as stated: no step of process_user_message, update, archive or restore, in any
\* interleaving, lowers the stored message_count of a conversation.
C9_CountNeverDecreases ==
    [][\A c \in DOMAIN convs :
          c \in DOMAIN convs' /\ convs'[c].message_count >= convs[c].message_count]_vars

\* C9 amended: the stored message_count of a conversation never decreases as long as no
\* two of these operations have held the conversation at the same time.
C9_CountNeverDecreasesSerial ==
    [][\A c \in DOMAIN convs :
          c \notin overlapped' =>
              (c \in DOMAIN convs' /\ convs'[c].message_count >= convs[c].message_count)]_vars

\* C9 witness: a chat turn and two requests have worked on conversation 1 one after the
\* other, and its count stands at 2.
C9_Witness ==
    /\ pc[1] = "returned" /\ conversation[1].id = 1
    /\ \A r \in Reqs : rpc[r] = "ok" /\ rargs[r].conversation_id = 1 /\ rconv[r].id = 1
    /\ 1 \notin overlapped
    /\ convs[1].message_count = 2

\* C10: for every conversation, the context assembled from the stored history holds only
\* COMPLETED messages and at most context_window entries.
C10_ContextBounded ==
    \A c \in DOMAIN convs :
        LET ms == ContextMessages(convs[c])
        IN  /\ \A i \in 1..Len(ms) : messages[ms[i]].status = "completed"
            /\ Len(ms) <= convs[c].context_window
            /\ Len(get_conversation_context(convs[c])) <= convs[c].context_window

\* The stored message a context entry was made from (message texts are pairwise distinct).
Source(entry) == CHOOSE m \in DOMAIN messages : messages[m].content = entry.content
Assembled(p) == pc[p] = "generate"

\* C11: the entries context assembly returns are in chronological order: of any two
\* entries, the one made from the message with the earlier timestamp comes first.
C11_ContextChronological ==
    \A p \in Calls :
        Assembled(p) =>
            \A i, j \in 1..Len(ctx[p]) :
                i < j => messages[Source(ctx[p][i])].timestamp
                           < messages[Source(ctx[p][j])].timestamp

\* C11 witness: a context of two entries whose messages were inserted newest first.
C11_Witness ==
    /\ Assembled(1) /\ Len(ctx[1]) = 2
    /\ Source(ctx[1][1]) > Source(ctx[1][2])

\* The messages of conversation c that fewer than n others are newer than.
MostRecent(c, n) ==
    {m \in MessagesOf(c) :
        Cardinality({k \in MessagesOf(c) : messages[k].timestamp > messages[m].timestamp}) < n}

\* Every stored message of conversation c is a COMPLETED USER or ASSISTANT message.
AllCompletedTurns(c) ==
    \A m \in MessagesOf(c) :
        messages[m].status = "completed" /\ messages[m].message_type \in {"user", "assistant"}

\* C12: with context_window = W >= 1 and n >= W stored messages, all of them COMPLETED
\* USER/ASSISTANT messages with distinct timestamps, context assembly returns exactly the
\* W most recently timestamped messages, oldest first.
C12_MostRecentWindow ==
    \A p \in Calls :
        LET c == conversation[p].id
            W == conversation[p].context_window
        IN  (Assembled(p) /\ W >= 1 /\ Cardinality(MessagesOf(c)) >= W /\ AllCompletedTurns(c))
            => /\ Len(ctx[p]) = W
               /\ \A i \in 1..Len(ctx[p]) :
                     LET m == Source(ctx[p][i])
                     IN  /\ m \in MostRecent(c, W)
                         /\ ctx[p][i].role = messages[m].message_type
                         /\ Cardinality({k \in MostRecent(c, W) :
                                           messages[k].timestamp < messages[m].timestamp}) = i - 1

\* C12 witness: window 2 over three COMPLETED messages, the oldest inserted last; the
\* context is the other two.
C12_Witness ==
    /\ Assembled(1) /\ conversation[1].context_window = 2
    /\ Cardinality(MessagesOf(1)) = 3 /\ AllCompletedTurns(1)
    /\ messages[3].timestamp = 1
    /\ Len(ctx[1]) = 2 /\ {Source(ctx[1][1]), Source(ctx[1][2])} = {1, 2}

\* C13: in every invocation, whatever the context_window, the context handed to the model
\* has the invocation's just-appended USER message as its last entry and holds no entry
\* made from the invocation's own PROCESSING placeholder.
C13_ContextHasUserMessage ==
    \A p \in Calls :
        Assembled(p) =>
            /\ Len(ctx[p]) >= 1
            /\ ctx[p][Len(ctx[p])] = [role |-> "user", content |-> UserText(p)]
            /\ \A i \in 1..Len(ctx[p]) : ctx[p][i].content # messages[AiMessageId(p)].content

\* C14: when context_window is 0, or the conversation holds no COMPLETED message, context
\* assembly returns the empty sequence, whatever messages are stored.
C14_EmptyContext ==
    \A p \in Calls :
        LET c == conversation[p].id
        IN  (Assembled(p)
               /\ (conversation[p].context_window = 0
                     \/ \A m \in MessagesOf(c) : messages[m].status # "completed"))
            => ctx[p] = <<>>

\* C15: context assembly gives a USER message the role "user" and an ASSISTANT message the
\* role "assistant", and no entry of the context is made from a SYSTEM message.
C15_RolesAndNoSystem ==
    \A p \in Calls :
        Assembled(p) =>
            \A i \in 1..Len(ctx[p]) :
                LET m == messages[Source(ctx[p][i])]
                IN  /\ m.message_type # "system"
                    /\ ctx[p][i].role = m.message_type

\* C16: once delete_conversation has completed for a conversation, no stored Message has
\* that conversation's id and the Conversation record does not exist, in every later
\* state, also when a process_user_message invocation on it was in flight during the delete.
C16_NoMessageOutlives ==
    \A r \in Reqs :
        (rargs[r].op = "delete" /\ rpc[r] = "ok")
        => /\ MessagesOf(rargs[r].conversation_id) = {}
           /\ rargs[r].conversation_id \notin DOMAIN convs

\* C17: every stored USER message is COMPLETED, from its insert on and in every later
\* state, also when its invocation fails afterwards.
C17_UserMessageCompleted ==
    \A m \in DOMAIN messages :
        messages[m].message_type = "user" => messages[m].status = "completed"

\* C17 witness: the model call of an invocation raised, its assistant message is FAILED,
\* and its USER message is stored.
C17_Witness ==
    \E p \in Calls :
        /\ pc[p] = "raised" /\ err[p] = "generate"
        /\ AiStored(p) /\ AiStatus(p) = "failed"
        /\ UserMessageId(p) \in DOMAIN messages
        /\ messages[UserMessageId(p)].message_type = "user"

\* The conversations invocations have created: those held by an invocation that did not
\* resolve an existing conversation of its caller.
CreatedBy(p) ==
    IF conversation[p] # NoDoc /\ lookup[p] # "owned" THEN {conversation[p].id} ELSE {}

\* C18: a call without conversation_id that returns (its model call succeeded) has created
\* exactly one new Conversation, owned by user_id, ACTIVE, with model_config
\* {max_tokens: 512, temperature: 0.7} and message_count 2; its messages are exactly one
\* USER message with the given text and one COMPLETED ASSISTANT message with the generated
\* response; the result names that conversation and those two messages.
C18_NewConversationTurn ==
    \A p \in Calls :
        (pc[p] = "returned" /\ args[p].conversation_id = None) =>
            LET res == Result(p)
                c   == res.conversation_id
            IN  /\ CreatedBy(p) = {c} /\ c \in DOMAIN convs /\ c # 1
                /\ \A q \in Calls \ {p} : c \notin CreatedBy(q)
                /\ DOMAIN convs = {1} \cup UNION {CreatedBy(q) : q \in Calls}
                /\ convs[c].user_id = args[p].user_id
                /\ convs[c].status = "active"
                /\ convs[c].model_config = [max_tokens |-> 512, temperature |-> 7]
                /\ convs[c].message_count = 2
                /\ MessagesOf(c) = {res.user_message_id, res.ai_message_id}
                /\ res.user_message_id # res.ai_message_id
                /\ messages[res.user_message_id].message_type = "user"
                /\ messages[res.user_message_id].content = UserText(p)
                /\ messages[res.ai_message_id].message_type = "assistant"
                /\ messages[res.ai_message_id].status = "completed"
                /\ messages[res.ai_message_id].content = ResponseText(p)
                /\ res.response = ResponseText(p)

\* C18 witness: both invocations came without conversation_id and returned; the store
\* holds the initial conversation and the two new ones.
C18_Witness ==
    /\ \A p \in Calls : pc[p] = "returned" /\ args[p].conversation_id = None
    /\ Cardinality(DOMAIN convs) = 3
    /\ Cardinality(DOMAIN messages) = 4

\* Request a archived conversation c and request b then restored it: both answered
\* success, and b read the document a had written.
ArchivedThenRestored(a, b, c) ==
    /\ rargs[a].op = "archive" /\ rargs[b].op = "restore"
    /\ rargs[a].conversation_id = c /\ rargs[b].conversation_id = c
    /\ rpc[a] = "ok" /\ rpc[b] = "ok"
    /\ loaded[b] = rconv[a]

\* C19 as stated: archive followed by restore leaves the conversation ACTIVE with every
\* other stored field, updated_at included, as it was before the archive.
C19_RoundTripAllFields ==
    \A a, b \in Reqs : \A c \in ConvIdInputs :
        ArchivedThenRestored(a, b, c) =>
            /\ rconv[b] = [loaded[a] EXCEPT !.status = "active"]
            /\ (pc[1] = "idle" => convs[c] = rconv[b])

\* C19 amended: archive followed by restore leaves the conversation ACTIVE with title,
\* model_config, context_window, message_count, total_tokens_used, created_at and owner
\* as before the archive; updated_at is stamped by both writes and is later than before.
C19_RoundTripButTimestamp ==
    \A a, b \in Reqs : \A c \in ConvIdInputs :
        ArchivedThenRestored(a, b, c) =>
            /\ rconv[b] = [loaded[a] EXCEPT !.status = "active",
                                            !.updated_at = rconv[b].updated_at]
            /\ rconv[b].updated_at > rconv[a].updated_at
            /\ rconv[a].updated_at > loaded[a].updated_at
            /\ (pc[1] = "idle" => convs[c] = rconv[b])

\* C19 witness: a chat turn completed, then the conversation was archived and restored;
\* the stored conversation is ACTIVE and counts the two messages.
C19_Witness ==
    /\ ArchivedThenRestored(1, 2, 1)
    /\ pc[1] = "returned" /\ loaded[1].message_count = 2
    /\ convs[1] = rconv[2]
    /\ convs[1].status = "active" /\ convs[1].message_count = 2

\* This step inserts message m.
Inserts(m) == m \notin DOMAIN messages /\ m \in DOMAIN messages'

\* C20: within one invocation the USER message is inserted first, then the ASSISTANT
\* placeholder, then the model is called, then the ASSISTANT message is updated with the
\* result: the model call never starts or runs before both inserts are in the store,
\* and the result update never happens before the model call has returned.
C20_StepOrder ==
    [][\A p \in Calls :
          /\ Inserts(UserMessageId(p)) => AiMessageId(p) \notin DOMAIN messages
          /\ Inserts(AiMessageId(p)) =>
                (UserMessageId(p) \in DOMAIN messages /\ pc[p] = "insert_ai")
          /\ (pc[p] = "generate" \/ pc'[p] = "generate") =>
                /\ {UserMessageId(p), AiMessageId(p)} \subseteq DOMAIN messages
                /\ AiStatus(p) = "processing"
          /\ Moves(p, "completed") =>
                (pc[p] = "save_result" /\ ai_msg[p].content = ResponseText(p))
          /\ pc'[p] = "save_result" => pc[p] \in {"generate", "save_result"}]_vars

\* C20 witness: an invocation has gone through all four steps.
C20_Witness ==
    \E p \in Calls :
        /\ pc[p] = "returned"
        /\ {UserMessageId(p), AiMessageId(p)} \subseteq DOMAIN messages
        /\ messages[UserMessageId(p)].timestamp < messages[AiMessageId(p)].timestamp
        /\ AiStatus(p) = "completed"

\* C21: when the model call succeeded and the store write that records the result
\* (line 74) raised, the invocation never returns a success result: it ends by raising,
\* with the write's exception unless the failure write (line 108) raised its own.
C21_ResultWriteFailureRaised ==
    \A p \in Calls :
        err[p] = "save_result" =>
            /\ pc[p] \in {"fail_write", "raised"}
            /\ pc[p] = "raised" => exc[p] \in {"save_result", "fail_write"}

\* C21 witness: the response was computed, its write raised, and the invocation has
\* raised; the stored assistant message carries the response text.
C21_Witness ==
    \E p \in Calls :
        /\ pc[p] = "raised" /\ err[p] = "save_result"
        /\ ai_msg[p].content = ResponseText(p)
        /\ messages[AiMessageId(p)].content = ResponseText(p)

\* C22: for every conversation whose model_config holds a max_tokens or temperature
\* entry, generation runs with that entry's value, whatever the value is (0 included);
\* the system default is used only when the entry is absent.
C22_OverridesTakePrecedence ==
    \A p \in Calls :
        pc[p] \in {"save_result", "save_conversation", "returned"} =>
            LET config == conversation[p].model_config
            IN  /\ gen[p].max_tokens =
                     IF config.max_tokens # Absent THEN config.max_tokens ELSE 512
                /\ gen[p].temperature =
                     IF config.temperature # Absent THEN config.temperature ELSE 7

\* Invocations that have completed successfully on conversation c.
Completed(c) == {p \in Calls : pc[p] = "returned" /\ conversation[p].id = c}

C24_ReturnedIdIsHome ==
    \A p \in Calls :
        pc[p] = "returned" =>
            LET rest == send_message(p)
                ws   == handle_chat_message(p)
            IN  /\ messages[rest.user_message_id].conversation_id = rest.conversation_id
                /\ messages[rest.ai_message_id].conversation_id = rest.conversation_id
                /\ messages[ws.message_sent.message_id].conversation_id
                     = ws.message_sent.conversation_id
                /\ messages[ws.ai_response.message_id].conversation_id
                     = ws.ai_response.conversation_id

\* C25: once the endpoint handler of a connection that was registered has exited, by
\* whichever path, the registry holds nothing for the connection: its connection_id is
\* not in active_connections and no entry of user_connections maps to it.
C25_NoEntryAfterExit ==
    \A c \in registered :
        handler[c].pc = "exited" =>
            /\ c \notin active_connections
            /\ \A u \in Users : user_connections[u] # c

\* C25 witness: a registered connection has exited while a later connection of the same
\* user is still registered in active_connections.
C25_Witness ==
    \E c, d \in registered :
        /\ c < d /\ handler[c].user = handler[d].user
        /\ handler[c].pc = "exited" /\ handler[d].pc = "receive"
        /\ d \in active_connections

\* Conversation b and the messages filed under it are the same before and after a step:
\* the document is unchanged, none of its messages changed or left it, none joined it.
Untouched(b) ==
    /\ b \in DOMAIN convs => (b \in DOMAIN convs' /\ convs'[b] = convs[b])
    /\ b \in DOMAIN convs' => b \in DOMAIN convs
    /\ \A m \in DOMAIN messages :
          messages[m].conversation_id = b => (m \in DOMAIN messages' /\ messages'[m] = messages[m])
    /\ \A m \in DOMAIN messages' :
          messages'[m].conversation_id = b => m \in DOMAIN messages

\* C26: every step of a process_user_message invocation, on the success path and on the
\* failure path, leaves every conversation other than the one the invocation works on,
\* and every message of such a conversation, unchanged.
C26_OtherConversationsUntouched ==
    [][\A p \in Calls :
          pc'[p] # pc[p] =>
              \A b \in (DOMAIN convs \cup DOMAIN convs') \ {conversation'[p].id} : Untouched(b)]_vars

\* C26 witness: one invocation has succeeded on conversation 1 and the other has failed
\* on a conversation of its own; each conversation holds the two messages of its turn.
C26_Witness ==
    /\ pc[1] = "returned" /\ conversation[1].id = 1
    /\ pc[2] = "raised" /\ conversation[2].id = NewConversationId(2)
    /\ {m \in DOMAIN messages : messages[m].conversation_id = 1}
         = {UserMessageId(1), AiMessageId(1)}
    /\ {m \in DOMAIN messages : messages[m].conversation_id = NewConversationId(2)}
         = {UserMessageId(2), AiMessageId(2)}
    /\ AiStatus(2) = "failed"

\* A conversation-management request fails with an error only when a store operation
\* raised: none of these handlers uses the model.
RequestsUnaffected == \A r \in Reqs : rpc[r] = "error" => faults > 0

C28_UniqueUsers ==
    /\ \A a, b \in DOMAIN users :
          a # b => (users[a].email # users[b].email /\ users[a].username # users[b].username)
    /\ \A g \in Regs :
          (faults = 0 /\ reg[g].pc = "answered" /\ reg[g].email_registered) =>
              /\ reg[g].answer = "Email already registered"
              /\ NewUserId(g) \notin DOMAIN users

\* The writes invocation p has issued on messages and on the existing conversation.
WritesIssued(p) ==
    writes[p].message_inserts + writes[p].message_updates + writes[p].conversation_saves

\* C29 as stated: an invocation issues at most 2 saves of its Conversation and at most 4
\* writes on messages and conversation updates in total.
C29_WriteBudget ==
    \A p \in Calls :
        /\ writes[p].conversation_saves <= 2
        /\ WritesIssued(p) <= 4

\* C29 amended: an invocation issues at most 3 saves of its Conversation (one inside each
\* add_message and the one at line 78) besides at most one insert of a new Conversation,
\* at most 2 message inserts and at most 2 message updates (the result write and the
\* failure write), hence at most 7 writes on messages and conversation updates; an
\* invocation that returns has issued exactly 3 saves, 2 inserts and 1 update.
C29_WriteBudgetCounted ==
    \A p \in Calls :
        /\ writes[p].conversation_saves <= 3
        /\ writes[p].conversation_inserts <= 1
        /\ writes[p].message_inserts <= 2
        /\ writes[p].message_updates <= 2
        /\ WritesIssued(p) <= 7
        /\ pc[p] = "returned" =>
              /\ writes[p].conversation_saves = 3
              /\ writes[p].message_inserts = 2
              /\ writes[p].message_updates = 1

\* C29 witness: an invocation whose last conversation save raised has issued 3 saves, 2
\* message inserts, the result write and the failure write: 7 writes.
C29_Witness ==
    \E p \in Calls :
        /\ pc[p] = "raised" /\ err[p] = "save_conversation"
        /\ writes[p].conversation_saves = 3
        /\ WritesIssued(p) = 7

\* Request r, an update, is answered in this step.
UpdateAnswered(r) == rargs'[r].op = "update" /\ rpc[r] \in {"idle", "loaded"} /\ rpc'[r] = "ok"

ConfigKeys == {"max_tokens", "temperature"}

\* C30: an update with a model_config patch stores, for every key of the patch, the
\* patch's value, and for every other key the value the conversation had when the request
\* loaded it, which is the stored value whenever no other operation held the conversation
\* at the same time; an update with no title, status or model_config writes nothing to the
\* store, so updated_at stays as it is.
C30_MergesPatch ==
    [][\A r \in Reqs :
          UpdateAnswered(r) =>
              LET patch == rargs'[r].patch
                  id    == rargs'[r].conversation_id
              IN  /\ patch.model_config.given =>
                        /\ \A k \in ConfigKeys :
                              convs'[id].model_config[k] =
                                  IF patch.model_config[k] # Absent
                                  THEN patch.model_config[k]
                                  ELSE loaded[r].model_config[k]
                        /\ id \notin overlapped' =>
                              loaded[r].model_config = convs[id].model_config
                  /\ patch = NoPatch => (convs' = convs /\ messages' = messages)]_vars

\* C30 witness: an update with an empty body was answered and left the conversation as
\* it was created; then an update that patches temperature alone was answered, and the
\* stored model_config has the patch's temperature and the default max_tokens.
C30_Witness ==
    /\ \A r \in Reqs : rpc[r] = "ok" /\ rargs[r].op = "update" /\ rargs[r].conversation_id = 1
    /\ rargs[1].patch = NoPatch
    /\ rargs[2].patch.model_config.given /\ rargs[2].patch.model_config.temperature = 9
    /\ convs[1].model_config = [max_tokens |-> DefaultMaxTokens, temperature |-> 9]
    /\ convs[1].updated_at > 0

\* The documents a step wrote: inserted, or stored with other content than before.
WrittenMessages == {m \in DOMAIN messages' : m \notin DOMAIN messages \/ messages'[m] # messages[m]}
WrittenConvs    == {c \in DOMAIN convs' : c \notin DOMAIN convs \/ convs'[c] # convs[c]}

\* C31: no step of a process_user_message invocation called by user U saves a
\* Conversation whose user_id differs from U, stored or as saved, and every message it
\* writes belongs to a stored conversation owned by U.
C31_WritesOnlyOwn ==
    [][\A p \in Calls :
          pc'[p] # pc[p] =>
              /\ \A c \in WrittenConvs :
                    /\ convs'[c].user_id = args'[p].user_id
                    /\ c \in DOMAIN convs => convs[c].user_id = args'[p].user_id
              /\ \A m \in WrittenMessages :
                    /\ messages'[m].conversation_id \in DOMAIN convs'
                    /\ convs'[messages'[m].conversation_id].user_id = args'[p].user_id]_vars

\* C31 witness: user 2 sent the id of user 1's conversation; the turn completed in a
\* conversation owned by user 2 and conversation 1 holds no message.
C31_Witness ==
    \E p \in Calls :
        /\ pc[p] = "returned" /\ lookup[p] = "foreign"
        /\ args[p].user_id = 2 /\ args[p].conversation_id = 1
        /\ convs[conversation[p].id].user_id = 2
        /\ messages[UserMessageId(p)].conversation_id = conversation[p].id
        /\ MessagesOf(1) = {}

\* Request r is made in this step, by a user who does not own the stored conversation it
\* names, or for an id that is not in the store.
AsksForeign(r) ==
    /\ rpc[r] = "idle" /\ rpc'[r] # "idle"
    /\ rargs'[r].conversation_id \in DOMAIN convs
    /\ convs[rargs'[r].conversation_id].user_id # rargs'[r].user_id
AsksAbsent(r) ==
    /\ rpc[r] = "idle" /\ rpc'[r] # "idle"
    /\ rargs'[r].conversation_id \notin DOMAIN convs

\* C32: get, list messages, update, archive, restore and delete requested by a user who
\* is not the owner are answered 404 "Conversation not found" in their first step, as
\* they are for an absent conversation, and leave every conversation and message as it
\* is; the only other answer is the 500 given when Conversation.get itself raised.
C32_ForeignIsNotFound ==
    [][\A r \in Reqs :
          (AsksForeign(r) \/ AsksAbsent(r)) =>
              /\ rpc'[r] \in {"not_found", "error"}
              /\ rpc'[r] = "error" => faults' = faults + 1
              /\ convs' = convs /\ messages' = messages]_vars

\* C32 witness: user 2 asked to archive and then to delete user 1's conversation after a
\* chat turn; both requests were answered 404 and the conversation is active with its
\* two messages.
C32_Witness ==
    /\ pc[1] = "returned" /\ conversation[1].id = 1
    /\ rpc[1] = "not_found" /\ rargs[1].op = "archive"
    /\ rpc[2] = "not_found" /\ rargs[2].op = "delete"
    /\ \A r \in Reqs : rargs[r].conversation_id = 1 /\ rargs[r].user_id = 2
    /\ convs[1].status = "active" /\ Cardinality(MessagesOf(1)) = 2

\* Conversation documents a and b agree on every field but the three that
\* process_user_message maintains.
SameButCounters(a, b) ==
    [a EXCEPT !.message_count = 0, !.updated_at = 0, !.total_tokens_used = 0]
        = [b EXCEPT !.message_count = 0, !.updated_at = 0, !.total_tokens_used = 0]

\* C33: a step of process_user_message changes nothing of a stored Conversation but
\* message_count, updated_at and total_tokens_used, so the title, status and model_config
\* another request committed while the invocation was in flight stay in the store.
C33_ChatKeepsOtherFields ==
    [][\A p \in Calls :
          pc'[p] # pc[p] =>
              \A c \in DOMAIN convs :
                  c \in DOMAIN convs' /\ SameButCounters(convs'[c], convs[c])]_vars

\* C34: in every reachable state of interleaved process_user_message invocations, with
\* no deletion, the stored message_count of every conversation is at most the number of
\* stored messages of that conversation.
C34_NeverOvercounts ==
    \A c \in DOMAIN convs : convs[c].message_count <= Cardinality(MessagesOf(c))

\* C34 witness: two overlapping invocations have completed on conversation 1, which holds
\* their four messages and counts three.
C34_Witness ==
    /\ Completed(1) = Calls
    /\ Cardinality(MessagesOf(1)) = 4
    /\ convs[1].message_count = 3

\* C35: after any sequence of connect and disconnect operations, every user who still
\* has a connection in active_connections has a user_connections entry that points to
\* one of their own active connections, so that send_personal_message attempts delivery.
C35_ActiveUserHasEntry ==
    \A c \in active_connections :
        /\ user_connections[handler[c].user] \in active_connections
        /\ handler[user_connections[handler[c].user]].user = handler[c].user

\* The handling of invocation p's chat_message is over: handle_chat_message returned,
\* or its exception ended the connection.
Handled(p) == chat[p].pc \in {"done", "disconnected"}

\* The content of invocation p's chat_message is empty once stripped.
Blank(p) == chat[p].pc # "none" /\ chat[p].is_str /\ Strip(chat[p].content) = <<>>

\* process_user_message was not called and no store write was issued.
NoCall(p) == pc[p] = "idle" /\ writes[p] = NoWrites

\* The orders of replies to one chat_message, and what a raising send leaves of them.
ReplyOrders ==
    {<<"error">>, <<"ai_typing", "error">>, <<"ai_typing", "message_sent", "ai_response">>}
PartialOrders ==
    ReplyOrders \cup {<<>>, <<"ai_typing">>, <<"ai_typing", "message_sent">>,
                      <<"ai_typing", "message_sent", "error">>}

\* An ai_response has a message_sent before it and no error before it.
ResponseOrdered(sent) ==
    \A i \in 1..Len(sent) :
        sent[i] = "ai_response" =>
            /\ \E j \in 1..(i - 1) : sent[j] = "message_sent"
            /\ \A j \in 1..(i - 1) : sent[j] # "error"

\* C36 as stated: the replies to a chat_message are a single error (the answer to empty
\* content, with no call to process_user_message and no store write), or ai_typing then
\* error (invalid conversation id or failed processing), or ai_typing, message_sent,
\* ai_response; an ai_response never comes without a message_sent before it, nor after
\* an error.
C36_ReplyOrders ==
    \A p \in Calls :
        /\ Handled(p) => chat[p].sent \in ReplyOrders
        /\ Handled(p) /\ Blank(p) => chat[p].sent = <<"error">>
        /\ Blank(p) => NoCall(p)
        /\ Handled(p) /\ chat[p].sent = <<"ai_typing", "error">> =>
              chat[p].conversation_id = "malformed" \/ pc[p] = "raised"
        /\ ResponseOrdered(chat[p].sent)

\* C36 amended: the replies follow one of the three orders whenever no send raised
\* while the message was handled; when a send raised, what was sent is a prefix of one of
\* the orders, followed by at most one error. Empty content leads to no call and no
\* store write, and an ai_response never comes without a message_sent before it, nor
\* after an error.
C36_ReplyOrdersUnlessSendRaises ==
    \A p \in Calls :
        /\ chat[p].sent \in PartialOrders
        /\ Handled(p) /\ ~chat[p].send_raised => chat[p].sent \in ReplyOrders
        /\ Handled(p) /\ ~chat[p].send_raised /\ Blank(p) => chat[p].sent = <<"error">>
        /\ Blank(p) => NoCall(p) /\ chat[p].sent \in {<<>>, <<"error">>}
        /\ Handled(p) /\ ~chat[p].send_raised /\ chat[p].sent = <<"ai_typing", "error">> =>
              chat[p].conversation_id = "malformed" \/ pc[p] = "raised"
        /\ ResponseOrdered(chat[p].sent)

\* C36 witness: the turn was processed and confirmed, the send of the ai_response raised
\* and so did the sends of the error frames: the replies stop after message_sent.
C36_Witness ==
    /\ chat[1].pc = "disconnected"
    /\ pc[1] = "returned"
    /\ chat[1].sent = <<"ai_typing", "message_sent">>

\* The calls for the identifier that were answered True at a time in [from, to].
AllowedIn(identifier, from, to) ==
    {i \in 1..Len(answers) : /\ answers[i].identifier = identifier
                             /\ answers[i].allowed
                             /\ from <= answers[i].time /\ answers[i].time <= to}

\* This step is a call of is_allowed; LastAnswer is its entry once the step is taken.
IsCall == answers' # answers
LastAnswer == answers[Len(answers)]

\* A call for another identifier leaves the identifier's list, and the answer a call for
\* it would get, as they are.
KeepsOthers ==
    \A identifier \in Identifiers :
        IsCall /\ LastAnswer'.identifier # identifier =>
            /\ identifier \in DOMAIN requests =>
                  identifier \in DOMAIN requests' /\ requests'[identifier] = requests[identifier]
            /\ UnderLimit(Cleaned(identifier, current_time))'
                  = UnderLimit(Cleaned(identifier, current_time))

\* C37: for every identifier and every sequence of is_allowed calls at non-decreasing
\* times, the calls answered True within any time window shorter than window_seconds
\* number at most max_requests, and a call for one identifier never changes the answer
\* given to another identifier.
C37_SlidingWindow ==
    /\ [](\A identifier \in Identifiers :
           \A from \in 0..MaxTime : \A to \in from..MaxTime :
              to - from < window_seconds =>
                  Cardinality(AllowedIn(identifier, from, to)) <= max_requests)
    /\ [][KeepsOthers]_vars

\* C37 witness: identifier 1 has used its max_requests within the window and is denied,
\* after which identifier 2 is allowed at the same time.
C37_Witness ==
    \E i \in 1..Len(answers) : \E j \in (i + 1)..Len(answers) :
        /\ answers[i].identifier = 1 /\ ~answers[i].allowed
        /\ Cardinality(AllowedIn(1, answers[i].time - window_seconds + 1, answers[i].time))
             = max_requests
        /\ answers[j].identifier = 2 /\ answers[j].allowed
        /\ answers[j].time = answers[i].time

\* A call answered False adds nothing to the identifier's list: the list is the cleaned
\* one.
DeniedNotRecorded ==
    IsCall /\ ~LastAnswer'.allowed =>
        requests'[LastAnswer'.identifier] = Cleaned(LastAnswer'.identifier, current_time)

\* A call for an identifier whose oldest recorded request is at least window_seconds
\* old is answered True.
AllowedOnceOldestExpired ==
    \A identifier \in DOMAIN requests :
        /\ IsCall /\ LastAnswer'.identifier = identifier
        /\ requests[identifier] # <<>>
        /\ current_time - Head(requests[identifier]) >= window_seconds
        => LastAnswer'.allowed

\* C38: a call of is_allowed that is answered False is not recorded, so an identifier that
\* was denied is answered True again as soon as the oldest of its recorded requests is at
\* least window_seconds old, however many denied calls it made in between.
C38_DeniedCallsDoNotExtend ==
    [][DeniedNotRecorded /\ AllowedOnceOldestExpired]_vars

\* C38 witness: an identifier is denied twice and then allowed, at the moment its oldest
\* allowed request is exactly window_seconds old.
C38_Witness ==
    \E i, j, k, o \in 1..Len(answers) :
        /\ o < i /\ i < j /\ j < k
        /\ \A n \in {o, i, j, k} : answers[n].identifier = 1
        /\ answers[o].allowed /\ ~answers[i].allowed /\ ~answers[j].allowed
        /\ answers[k].allowed
        /\ answers[k].time = answers[o].time + window_seconds
        /\ \A n \in 1..(o - 1) : answers[n].identifier # 1

====
